---- MODULE Spec2Model ----
(***************************************************************************)
(* A model of the byte-pair-encoding tokenizer of src/bpe_tokenizer.py:    *)
(* class BPETokenizer with its tables vocab and merges, the operations     *)
(* train, encode, decode, save and load, and the static helpers _get_stats *)
(* and _merge.                                                             *)
(*                                                                         *)
(* A Python str is a sequence of code points, a bytes object a sequence of *)
(* numbers 0..255, a dict a function on its key set (with the insertion    *)
(* order kept beside it where the code depends on it), a tuple a sequence. *)
(* A string of a persisted document is a sequence of one-character         *)
(* strings.                                                                *)
(***************************************************************************)
EXTENDS Integers, Sequences, FiniteSets, TLC

VARIABLES
    vocab,      \* self.vocab: token id -> bytes
    merges,     \* self.merges: <<left, right>> -> token id
    call,       \* the call the caller is looking at the outcome of: what was
                \* called, with what, and how it ended; NoCall between calls
    trained,    \* <<>> or <<[text, vocab_size]>>: the train call, when the
                \* tables are those a successful train left
    files,      \* the two persisted documents, each <<>> (no file) or <<doc>>
    saved,      \* <<>> or <<[vocab, merges]>>: the tables a complete save wrote,
                \* while both files are still the ones it wrote
    margs       \* the arguments and result of a direct _merge call

vars == <<vocab, merges, call, trained, files, saved, margs>>

----------------------------------------------------------------------------
(* Bounds of the model and constants of the program *)

\* the number of single-byte tokens: train's range(256), its 256 + i and its
\* vocab_size < 256
NumBytes == 256

\* texts have at most MaxTextLen code points
MaxTextLen == 4

\* train is called with vocab_size in 255..MaxVocabSize
MaxVocabSize == 258

\* decode is called with at most MaxIdsLen ids
MaxIdsLen == 2

\* _merge is called directly with at most MaxMergeLen ids
MaxMergeLen == 4

\* the code points texts are made of: a (one byte) and e-acute (two bytes,
\* c3 a9)
CodePoints == {97, 233}

\* U+FFFD, what decode substitutes for bytes that are not UTF-8
Replacement == 65533

SeqsUpTo(S, n) == UNION {[1..k -> S] : k \in 0..n}

Texts == SeqsUpTo(CodePoints, MaxTextLen)

VocabSizes == (NumBytes - 1)..MaxVocabSize

None == "None"

----------------------------------------------------------------------------
(* str.encode("utf-8") and bytes.decode("utf-8", errors="replace") *)

\* the UTF-8 bytes of one code point (no surrogate is among CodePoints)
Utf8Char(c) ==
    IF c < 128 THEN <<c>>
    ELSE IF c < 2048 THEN <<192 + (c \div 64), 128 + (c % 64)>>
    ELSE IF c < 65536
         THEN <<224 + (c \div 4096), 128 + ((c \div 64) % 64), 128 + (c % 64)>>
    ELSE <<240 + (c \div 262144), 128 + ((c \div 4096) % 64),
           128 + ((c \div 64) % 64), 128 + (c % 64)>>

RECURSIVE Utf8Encode(_)
Utf8Encode(text) ==
    IF text = <<>> THEN <<>>
    ELSE Utf8Char(Head(text)) \o Utf8Encode(Tail(text))

IsCont(b, i, lo, hi) == i <= Len(b) /\ b[i] >= lo /\ b[i] <= hi

\* the range the second byte of a sequence led by b1 must lie in
SecondLo(b1) == IF b1 = 224 THEN 160 ELSE IF b1 = 240 THEN 144 ELSE 128
SecondHi(b1) == IF b1 = 237 THEN 159 ELSE IF b1 = 244 THEN 143 ELSE 191

\* the decoder from byte i on: every maximal ill-formed subsequence becomes
\* one U+FFFD
RECURSIVE Utf8DecodeFrom(_, _)
Utf8DecodeFrom(b, i) ==
    IF i > Len(b) THEN <<>>
    ELSE LET b1 == b[i] IN
      IF b1 < 128 THEN <<b1>> \o Utf8DecodeFrom(b, i + 1)
      ELSE IF b1 >= 194 /\ b1 <= 223 THEN
        IF IsCont(b, i + 1, 128, 191)
        THEN <<(b1 - 192) * 64 + (b[i + 1] - 128)>> \o Utf8DecodeFrom(b, i + 2)
        ELSE <<Replacement>> \o Utf8DecodeFrom(b, i + 1)
      ELSE IF b1 >= 224 /\ b1 <= 239 THEN
        IF ~IsCont(b, i + 1, SecondLo(b1), SecondHi(b1))
        THEN <<Replacement>> \o Utf8DecodeFrom(b, i + 1)
        ELSE IF ~IsCont(b, i + 2, 128, 191)
        THEN <<Replacement>> \o Utf8DecodeFrom(b, i + 2)
        ELSE <<(b1 - 224) * 4096 + (b[i + 1] - 128) * 64 + (b[i + 2] - 128)>>
             \o Utf8DecodeFrom(b, i + 3)
      ELSE IF b1 >= 240 /\ b1 <= 244 THEN
        IF ~IsCont(b, i + 1, SecondLo(b1), SecondHi(b1))
        THEN <<Replacement>> \o Utf8DecodeFrom(b, i + 1)
        ELSE IF ~IsCont(b, i + 2, 128, 191)
        THEN <<Replacement>> \o Utf8DecodeFrom(b, i + 2)
        ELSE IF ~IsCont(b, i + 3, 128, 191)
        THEN <<Replacement>> \o Utf8DecodeFrom(b, i + 3)
        ELSE <<(b1 - 240) * 262144 + (b[i + 1] - 128) * 4096
               + (b[i + 2] - 128) * 64 + (b[i + 3] - 128)>>
             \o Utf8DecodeFrom(b, i + 4)
      ELSE <<Replacement>> \o Utf8DecodeFrom(b, i + 1)

Utf8DecodeReplace(b) == Utf8DecodeFrom(b, 1)

----------------------------------------------------------------------------
(* dicts *)

EmptyDict == <<>>

\* d[k] = v
DictSet(d, k, v) ==
    [x \in DOMAIN d \cup {k} |-> IF x = k THEN v ELSE d[x]]

----------------------------------------------------------------------------
(* _get_stats and _merge *)

\* counts after the loop of _get_stats has seen the pairs at positions p, p+1, ...
\* of ids: keys is the dict's insertion order, count its values
RECURSIVE StatsFrom(_, _, _)
StatsFrom(ids, p, counts) ==
    IF p >= Len(ids) THEN counts
    ELSE LET pair == <<ids[p], ids[p + 1]>> IN
         IF pair \in DOMAIN counts.count
         THEN StatsFrom(ids, p + 1,
                  [keys |-> counts.keys,
                   count |-> [counts.count EXCEPT ![pair] = @ + 1]])
         ELSE StatsFrom(ids, p + 1,
                  [keys |-> Append(counts.keys, pair),
                   count |-> DictSet(counts.count, pair, 1)])

_get_stats(ids) == StatsFrom(ids, 1, [keys |-> <<>>, count |-> EmptyDict])

\* the loop of _merge from position i (1-based) on
RECURSIVE MergeFrom(_, _, _, _)
MergeFrom(ids, pair, idx, i) ==
    IF i > Len(ids) THEN <<>>
    ELSE IF i < Len(ids) /\ ids[i] = pair[1] /\ ids[i + 1] = pair[2]
         THEN <<idx>> \o MergeFrom(ids, pair, idx, i + 2)
         ELSE <<ids[i]>> \o MergeFrom(ids, pair, idx, i + 1)

\* _merge resuming at i + 1 after a match: matches may overlap
RECURSIVE MergeOverlappingFrom(_, _, _, _)
MergeOverlappingFrom(ids, pair, idx, i) ==
    IF i > Len(ids) THEN <<>>
    ELSE IF i < Len(ids) /\ ids[i] = pair[1] /\ ids[i + 1] = pair[2]
         THEN <<idx>> \o MergeOverlappingFrom(ids, pair, idx, i + 1)
         ELSE <<ids[i]>> \o MergeOverlappingFrom(ids, pair, idx, i + 1)

MergeOverlapping(ids, pair, idx) == MergeOverlappingFrom(ids, pair, idx, 1)

\* _merge with the bound i < len(ids) - 2: a match at the last position stays
RECURSIVE MergeKeepsLastFrom(_, _, _, _)
MergeKeepsLastFrom(ids, pair, idx, i) ==
    IF i > Len(ids) THEN <<>>
    ELSE IF i < Len(ids) - 1 /\ ids[i] = pair[1] /\ ids[i + 1] = pair[2]
         THEN <<idx>> \o MergeKeepsLastFrom(ids, pair, idx, i + 2)
         ELSE <<ids[i]>> \o MergeKeepsLastFrom(ids, pair, idx, i + 1)

MergeKeepsLast(ids, pair, idx) == MergeKeepsLastFrom(ids, pair, idx, 1)

_merge(ids, pair, idx) == MergeFrom(ids, pair, idx, 1)

----------------------------------------------------------------------------
(* train, encode and decode *)

\* max(stats, key=stats.get) over the keys from position k on: a later key
\* replaces best only when its count is strictly greater
RECURSIVE MaxFrom(_, _, _)
MaxFrom(stats, k, best) ==
    IF k > Len(stats.keys) THEN best
    ELSE IF stats.count[stats.keys[k]] > stats.count[best]
         THEN MaxFrom(stats, k + 1, stats.keys[k])
         ELSE MaxFrom(stats, k + 1, best)

\* max with >= for >: the last of the most frequent pairs wins
RECURSIVE MaxLastFrom(_, _, _)
MaxLastFrom(stats, k, best) ==
    IF k > Len(stats.keys) THEN best
    ELSE IF stats.count[stats.keys[k]] >= stats.count[best]
         THEN MaxLastFrom(stats, k + 1, stats.keys[k])
         ELSE MaxLastFrom(stats, k + 1, best)

PyMaxLastWins(stats) == MaxLastFrom(stats, 2, stats.keys[1])

PyMaxByCount(stats) == MaxFrom(stats, 2, stats.keys[1])

\* key(p) < key(q) for key = lambda p: merges.get(p, float("inf"))
KeyLess(m, p, q) ==
    /\ p \in DOMAIN m
    /\ (q \in DOMAIN m => m[p] < m[q])

\* min(stats, key=...) over the keys from position k on: a later key replaces
\* best only when its key is strictly smaller
RECURSIVE MinFrom(_, _, _, _)
MinFrom(stats, m, k, best) ==
    IF k > Len(stats.keys) THEN best
    ELSE IF KeyLess(m, stats.keys[k], best)
         THEN MinFrom(stats, m, k + 1, stats.keys[k])
         ELSE MinFrom(stats, m, k + 1, best)

\* encode choosing as train does, the most frequent pair
PyMinByFrequency(stats, m) == MaxFrom(stats, 2, stats.keys[1])

PyMinByMerge(stats, m) == MinFrom(stats, m, 2, stats.keys[1])

\* {idx: bytes([idx]) for idx in range(256)}
ByteVocab == [idx \in 0..(NumBytes - 1) |-> <<idx>>]

\* idx = 256 + i
NewId(i) == NumBytes + i

\* the new entry with the operands swapped, and with the right one left out
NewVocabEntrySwapped(v, pair) == v[pair[2]] \o v[pair[1]]

NewVocabEntryLeftOnly(v, pair) == v[pair[1]]

\* self.vocab[pair[0]] + self.vocab[pair[1]]
NewVocabEntry(v, pair) == v[pair[1]] \o v[pair[2]]

\* the merge loop of train from iteration i on: for i in range(num_merges).
\* steps records, for every iteration that merged, the ids it started from,
\* the pair and the new id
RECURSIVE TrainLoop(_, _, _, _, _, _)

\* the rest of an iteration once pair and idx are chosen, and the iterations
\* after it
TrainMerge(ids, i, num_merges, v, m, steps, pair, idx) ==
    TrainLoop(_merge(ids, pair, idx), i + 1, num_merges,
              DictSet(v, idx, NewVocabEntry(v, pair)),
              DictSet(m, pair, idx),
              Append(steps, [ids |-> ids, pair |-> pair, idx |-> idx]))

\* an iteration from its stats on: if not stats: break
TrainIteration(ids, i, num_merges, v, m, steps, stats) ==
    IF stats.keys = <<>>
    THEN [ids |-> ids, vocab |-> v, merges |-> m, steps |-> steps]
    ELSE TrainMerge(ids, i, num_merges, v, m, steps,
                    PyMaxByCount(stats), NewId(i))

TrainLoop(ids, i, num_merges, v, m, steps) ==
    IF i >= num_merges
    THEN [ids |-> ids, vocab |-> v, merges |-> m, steps |-> steps]
    ELSE TrainIteration(ids, i, num_merges, v, m, steps, _get_stats(ids))

\* the while loop of encode; steps records every pass: the tokens it started
\* from, the pair and the id it merged them into
RECURSIVE EncodeLoop(_, _, _)

\* a pass once its pair is chosen, and the passes after it
EncodePass(tokens, m, steps, pair) ==
    IF pair \notin DOMAIN m THEN [tokens |-> tokens, steps |-> steps]
    ELSE EncodeLoop(_merge(tokens, pair, m[pair]), m,
                    Append(steps, [ids |-> tokens, pair |-> pair,
                                   idx |-> m[pair]]))

EncodeLoop(tokens, m, steps) ==
    IF Len(tokens) < 2 THEN [tokens |-> tokens, steps |-> steps]
    ELSE EncodePass(tokens, m, steps, PyMinByMerge(_get_stats(tokens), m))

\* b"".join(self.vocab[idx] for idx in ids), every id being a key
RECURSIVE JoinBytes(_, _)
JoinBytes(v, ids) ==
    IF ids = <<>> THEN <<>> ELSE v[Head(ids)] \o JoinBytes(v, Tail(ids))

\* what a call leaves in the variable call
Call(op, arg, size, raised, ret, steps) ==
    [op |-> op, arg |-> arg, vocab_size |-> size, raised |-> raised,
     ret |-> ret, steps |-> steps]

\* no call is under way: the program is single-threaded and every call runs
\* to completion before the caller goes on
NoCall == Call("none", <<>>, 0, None, <<>>, <<>>)

Train(text, vocab_size) ==
    /\ call = NoCall
    /\ UNCHANGED <<files, saved, margs>>
    /\ IF vocab_size < NumBytes
       THEN /\ call' = Call("train", text, vocab_size, "ValueError", <<>>, <<>>)
            /\ UNCHANGED <<vocab, merges, trained>>
       ELSE \E run \in {TrainLoop(Utf8Encode(text), 0, vocab_size - NumBytes,
                                 ByteVocab, EmptyDict, <<>>)} :
            \* len(tokens) / len(ids) in the last print
            LET raised == IF Len(run.ids) = 0 THEN "ZeroDivisionError" ELSE None
            IN  /\ vocab' = run.vocab
                /\ merges' = run.merges
                /\ call' = Call("train", text, vocab_size, raised, run.ids,
                                run.steps)
                /\ trained' = IF raised = None
                              THEN <<[text |-> text, vocab_size |-> vocab_size]>>
                              ELSE <<>>

Encode(text) ==
    /\ call = NoCall
    /\ UNCHANGED <<vocab, merges, trained, files, saved, margs>>
    /\ IF DOMAIN merges = {}
       THEN call' = Call("encode", text, 0, "RuntimeError", <<>>, <<>>)
       ELSE \E run \in {EncodeLoop(Utf8Encode(text), merges, <<>>)} :
                call' = Call("encode", text, 0, None, run.tokens, run.steps)

\* decode on a tokenizer whose vocab is v: the exception raised, the text
\* returned
decode(v, ids) ==
    IF DOMAIN v = {}
    THEN [raised |-> "RuntimeError", ret |-> <<>>]
    ELSE IF \E k \in 1..Len(ids) : ids[k] \notin DOMAIN v
    THEN [raised |-> "KeyError", ret |-> <<>>]
    ELSE [raised |-> None, ret |-> Utf8DecodeReplace(JoinBytes(v, ids))]

Decode(ids) ==
    /\ call = NoCall
    /\ UNCHANGED <<vocab, merges, trained, files, saved, margs>>
    /\ \E r \in {decode(vocab, ids)} :
           call' = Call("decode", ids, 0, r.raised, r.ret, <<>>)

\* the ids decode is called with: bytes, learned ids and an id no table has
DecodeIds == SeqsUpTo({97, 169, 195, NumBytes, NumBytes + 1, 9999}, MaxIdsLen)

\* BPETokenizer(vocab, merges): no arguments, or tables that no training made
CtorTables ==
    { [vocab |-> EmptyDict, merges |-> EmptyDict],
      [vocab |-> ByteVocab,
       merges |-> (<<97, 97>> :> 257) @@ (<<195, 169>> :> 256)],
      [vocab |-> DictSet(ByteVocab, 256, <<97, 195>>),
       merges |-> (<<97, 195>> :> 256) @@ (<<169, 97>> :> 256)],
      [vocab |-> ByteVocab, merges |-> (<<97, 97>> :> 97)] }

\* the caller has the outcome of the call and goes on
Return ==
    /\ call # NoCall
    /\ call' = NoCall
    /\ UNCHANGED <<vocab, merges, trained, files, saved, margs>>

NoMerge ==
    [ids |-> <<>>, pair |-> <<0, 0>>, idx |-> 0, called |-> FALSE, out |-> <<>>]

Init ==
    /\ \E t \in CtorTables : vocab = t.vocab /\ merges = t.merges
    /\ call = NoCall
    /\ trained = <<>>
    /\ files = [vocab |-> <<>>, merges |-> <<>>]
    /\ saved = <<>>
    /\ margs = NoMerge

Next ==
    \/ \E text \in Texts, vocab_size \in VocabSizes : Train(text, vocab_size)
    \/ \E text \in Texts : Encode(text)
    \/ \E ids \in DecodeIds : Decode(ids)
    \/ Return

Spec == Init /\ [][Next]_vars

----------------------------------------------------------------------------
(* save and load.  A document is the JSON object json.dump writes and       *)
(* json.load reads back: a function from key strings to values.            *)

DecDigits == <<"0", "1", "2", "3", "4", "5", "6", "7", "8", "9">>

HexDigits == <<"0", "1", "2", "3", "4", "5", "6", "7", "8", "9",
               "a", "b", "c", "d", "e", "f">>

IndexOf(digits, c) == CHOOSE k \in 1..Len(digits) : digits[k] = c

IsIn(digits, c) == \E k \in 1..Len(digits) : digits[k] = c

RECURSIVE StrNat(_)
StrNat(n) ==
    IF n < 10 THEN <<DecDigits[n + 1]>>
    ELSE StrNat(n \div 10) \o <<DecDigits[(n % 10) + 1]>>

\* str(k) of an int, as save's str(k) and its f"{k[0]},{k[1]}" format it
Str(n) == IF n < 0 THEN <<"-">> \o StrNat(-n) ELSE StrNat(n)

RECURSIVE NatOf(_)
NatOf(s) ==
    IF s = <<>> THEN 0
    ELSE 10 * NatOf(SubSeq(s, 1, Len(s) - 1)) + IndexOf(DecDigits, s[Len(s)]) - 1

AllDigits(s) == s # <<>> /\ \A k \in 1..Len(s) : IsIn(DecDigits, s[k])

\* int(s): <<>> when it raises ValueError, else <<the value>>
PyInt(s) ==
    IF AllDigits(s) THEN <<NatOf(s)>>
    ELSE IF s # <<>> /\ Head(s) = "-" /\ AllDigits(Tail(s))
    THEN <<0 - NatOf(Tail(s))>>
    ELSE <<>>

\* bytes.hex()
RECURSIVE Hex(_)
Hex(b) ==
    IF b = <<>> THEN <<>>
    ELSE <<HexDigits[(Head(b) \div 16) + 1], HexDigits[(Head(b) % 16) + 1]>>
         \o Hex(Tail(b))

RECURSIVE HexBytes(_)
HexBytes(s) ==
    IF s = <<>> THEN <<>>
    ELSE <<16 * (IndexOf(HexDigits, s[1]) - 1) + IndexOf(HexDigits, s[2]) - 1>>
         \o HexBytes(SubSeq(s, 3, Len(s)))

\* bytes.fromhex(s): <<>> when it raises ValueError, else <<the bytes>>
FromHex(s) ==
    IF Len(s) % 2 = 0 /\ \A k \in 1..Len(s) : IsIn(HexDigits, s[k])
    THEN <<HexBytes(s)>>
    ELSE <<>>

\* the key without its comma
MergeKeyNoComma(k) == Str(k[1]) \o Str(k[2])

\* f"{k[0]},{k[1]}"
MergeKey(k) == Str(k[1]) \o <<",">> \o Str(k[2])

\* s.split(',')
RECURSIVE Split(_)
Split(s) ==
    IF \A k \in 1..Len(s) : s[k] # ","
    THEN <<s>>
    ELSE LET c == CHOOSE k \in 1..Len(s) :
                      s[k] = "," /\ \A j \in 1..(k - 1) : s[j] # ","
         IN  <<SubSeq(s, 1, c - 1)>> \o Split(SubSeq(s, c + 1, Len(s)))

\* tuple(map(int, k.split(','))): <<>> when an int() raises ValueError, else
\* <<the tuple>>
ParseMergeKey(s) ==
    LET parts == Split(s) IN
    IF \E k \in 1..Len(parts) : PyInt(parts[k]) = <<>>
    THEN <<>>
    ELSE <<[k \in 1..Len(parts) |-> PyInt(parts[k])[1]]>>

\* {str(k): v.hex() for k, v in self.vocab.items()}
VocabDoc(v) ==
    [s \in {Str(k) : k \in DOMAIN v} |->
        Hex(v[CHOOSE k \in DOMAIN v : Str(k) = s])]

\* {f"{k[0]},{k[1]}": v for k, v in self.merges.items()}
MergesDoc(m) ==
    [s \in {MergeKey(k) : k \in DOMAIN m} |->
        m[CHOOSE k \in DOMAIN m : MergeKey(k) = s]]

\* {int(k): bytes.fromhex(v) for k, v in vocab_serializable.items()}:
\* <<>> when it raises ValueError, else <<the dict>>
LoadVocab(doc) ==
    IF \E s \in DOMAIN doc : PyInt(s) = <<>> \/ FromHex(doc[s]) = <<>>
    THEN <<>>
    ELSE <<[k \in {PyInt(s)[1] : s \in DOMAIN doc} |->
              FromHex(doc[CHOOSE s \in DOMAIN doc : PyInt(s)[1] = k])[1]]>>

\* {tuple(map(int, k.split(','))): v for k, v in merges_serializable.items()}:
\* <<>> when it raises ValueError, else <<the dict>>
LoadMerges(doc) ==
    IF \E s \in DOMAIN doc : ParseMergeKey(s) = <<>>
    THEN <<>>
    ELSE <<[k \in {ParseMergeKey(s)[1] : s \in DOMAIN doc} |->
              doc[CHOOSE s \in DOMAIN doc : ParseMergeKey(s)[1] = k]]>>

\* save; vocab_writable and merges_writable say whether open(path, 'w')
\* succeeds on each path
Save(vocab_writable, merges_writable) ==
    /\ call = NoCall
    /\ UNCHANGED <<vocab, merges, trained, margs>>
    /\ IF ~vocab_writable
       THEN /\ call' = Call("save", <<>>, 0, "OSError", <<>>, <<>>)
            /\ UNCHANGED <<files, saved>>
       ELSE IF ~merges_writable
       THEN /\ files' = [files EXCEPT !.vocab = <<VocabDoc(vocab)>>]
            /\ saved' = <<>>
            /\ call' = Call("save", <<>>, 0, "OSError", <<>>, <<>>)
       ELSE /\ files' = [vocab |-> <<VocabDoc(vocab)>>,
                         merges |-> <<MergesDoc(merges)>>]
            /\ saved' = <<[vocab |-> vocab, merges |-> merges]>>
            /\ call' = Call("save", <<>>, 0, None, <<>>, <<>>)

\* load; call.arg keeps the tables the tokenizer held when load was called
Load ==
    /\ call = NoCall
    /\ UNCHANGED <<trained, files, saved, margs>>
    /\ LET before == [vocab |-> vocab, merges |-> merges] IN
       IF files.vocab = <<>>
       THEN /\ call' = Call("load", before, 0, "OSError", <<>>, <<>>)
            /\ UNCHANGED <<vocab, merges>>
       ELSE IF LoadVocab(files.vocab[1]) = <<>>
       THEN /\ call' = Call("load", before, 0, "ValueError", <<>>, <<>>)
            /\ UNCHANGED <<vocab, merges>>
       ELSE /\ vocab' = LoadVocab(files.vocab[1])[1]
            /\ IF files.merges = <<>>
               THEN /\ call' = Call("load", before, 0, "OSError", <<>>, <<>>)
                    /\ UNCHANGED merges
               ELSE IF LoadMerges(files.merges[1]) = <<>>
               THEN /\ call' = Call("load", before, 0, "ValueError", <<>>, <<>>)
                    /\ UNCHANGED merges
               ELSE /\ merges' = LoadMerges(files.merges[1])[1]
                    /\ call' = Call("load", before, 0, None, <<>>, <<>>)

\* BPETokenizer(): the caller goes on with a new tokenizer
Construct ==
    /\ call = NoCall
    /\ vocab' = EmptyDict
    /\ merges' = EmptyDict
    /\ UNCHANGED <<call, trained, files, saved, margs>>

\* a byte string of a vocabulary has at most MaxBytesLen bytes
MaxBytesLen == 2

\* BPETokenizer(vocab, merges) with any tables: ids and pairs whose decimal
\* forms have one to three digits and a sign, bytes below and above 16
PersistVocabs ==
    UNION {[S -> SeqsUpTo({10, 255}, MaxBytesLen)] : S \in SUBSET {7, 256}}

PersistMerges ==
    UNION {[S -> {-1, 256}] : S \in SUBSET {<<1, 23>>, <<12, 3>>}}

\* what the two paths hold at the start: nothing, or documents something else
\* wrote, the merges document with a key that is no pair of integers
FilesAtStart ==
    { [vocab |-> <<>>, merges |-> <<>>],
      [vocab |-> <<(<<"7">> :> <<"6", "1">>)>>,
       merges |-> <<(<<"1", ",">> :> 256)>>],
      [vocab |-> <<(<<"7">> :> <<"6", "1", "0">>)>>, merges |-> <<>>] }

InitPersist ==
    /\ vocab \in PersistVocabs
    /\ merges \in PersistMerges
    /\ call = NoCall
    /\ trained = <<>>
    /\ files \in FilesAtStart
    /\ saved = <<>>
    /\ margs = NoMerge

NextPersist ==
    \/ \E vocab_writable \in BOOLEAN, merges_writable \in BOOLEAN :
           Save(vocab_writable, merges_writable)
    \/ Load
    \/ Construct
    \/ Return

SpecPersist == InitPersist /\ [][NextPersist]_vars

----------------------------------------------------------------------------
(* _merge called on its own, on every short sequence of two symbols, with   *)
(* every pair of them and with a replacement id that occurs in the         *)
(* sequences (97) or does not (256)                                        *)

MergeSyms == {97, 98}

InitMerge ==
    /\ vocab = EmptyDict
    /\ merges = EmptyDict
    /\ call = NoCall
    /\ trained = <<>>
    /\ files = [vocab |-> <<>>, merges |-> <<>>]
    /\ saved = <<>>
    /\ margs \in [ids : SeqsUpTo(MergeSyms, MaxMergeLen),
                  pair : MergeSyms \X MergeSyms,
                  idx : {97, NumBytes},
                  called : {FALSE},
                  out : {<<>>}]

MergeCall ==
    /\ ~margs.called
    /\ margs' = [margs EXCEPT !.called = TRUE,
                              !.out = _merge(margs.ids, margs.pair, margs.idx)]
    /\ UNCHANGED <<vocab, merges, call, trained, files, saved>>

NextMerge == MergeCall

SpecMerge == InitMerge /\ [][NextMerge]_vars

----------------------------------------------------------------------------
(* Notions the properties are stated with *)

\* the adjacent pairs of a sequence, and where each occurs
PairAt(ids, p) == <<ids[p], ids[p + 1]>>

PairsOf(ids) == {PairAt(ids, p) : p \in 1..(Len(ids) - 1)}

Occurrences(ids, pair) == {p \in 1..(Len(ids) - 1) : PairAt(ids, p) = pair}

FirstOccurrence(ids, pair) ==
    CHOOSE p \in Occurrences(ids, pair) :
        \A q \in Occurrences(ids, pair) : p <= q

Values(f) == {f[x] : x \in DOMAIN f}

\* the sequence a call's k-th pass (or iteration) produced: what the next one
\* started from, or what the call ended with
After(c, k) == IF k < Len(c.steps) THEN c.steps[k + 1].ids ELSE c.ret

IsTrainCall == call.op = "train" /\ call.raised = None

IsEncodeCall == call.op = "encode" /\ call.raised = None

----------------------------------------------------------------------------
(* The properties *)

\* C1: round trip on the trained text: once train(T, vocab_size) has
\* succeeded with vocab_size >= 256, encode(T) returns ids that decode turns
\* back into T.  Stated of the encode(T) call on a tokenizer whose tables are
\* those train(T, ...) left.
RoundTripOnTrainedText ==
    (call.op = "encode" /\ trained # <<>> /\ call.arg = trained[1].text)
        => /\ call.raised = None
           /\ decode(vocab, call.ret) = [raised |-> None, ret |-> call.arg]

\* C2: no partial success: a call that raises leaves vocab and merges as they
\* were before the call.
NoPartialSuccess ==
    [][call'.raised # None => (vocab' = vocab /\ merges' = merges)]_vars

\* C3: idempotent persistence: a load that follows a complete save succeeds
\* and leaves exactly the tables the save was given: the same ids with the
\* same bytes, the same pairs with the same target ids.
PersistenceRoundTrip ==
    (call.op = "load" /\ saved # <<>>)
        => /\ call.raised = None
           /\ vocab = saved[1].vocab
           /\ merges = saved[1].merges

\* C3's case: a fresh tokenizer has loaded, after a complete save, a
\* vocabulary of two ids, one with two bytes, and a merge table of two pairs
PersistenceRoundTripWitness ==
    /\ call.op = "load"
    /\ call.raised = None
    /\ saved # <<>>
    /\ call.arg.vocab = EmptyDict
    /\ call.arg.merges = EmptyDict
    /\ Cardinality(DOMAIN vocab) = 2
    /\ \E k \in DOMAIN vocab : Len(vocab[k]) = 2
    /\ Cardinality(DOMAIN merges) = 2

\* C4: merge monotonicity: after a train that ran k merge iterations, k is at
\* most vocab_size - 256, the values of merges are exactly 256..256+k-1, merges
\* has k keys, no pair was chosen in two iterations, and iteration i (from 0)
\* assigned 256 + i.
MergeMonotonicity ==
    IsTrainCall =>
        LET k == Len(call.steps) IN
        /\ k <= call.vocab_size - NumBytes
        /\ Values(merges) = NumBytes..(NumBytes + k - 1)
        /\ Cardinality(DOMAIN merges) = k
        /\ \A i \in 1..k :
              /\ call.steps[i].idx = NumBytes + (i - 1)
              /\ call.steps[i].pair \in DOMAIN merges
              /\ merges[call.steps[i].pair] = call.steps[i].idx
        /\ \A i \in 1..k, j \in 1..k :
              i # j => call.steps[i].pair # call.steps[j].pair

\* C4's case: a train that merged at least twice
MergeMonotonicityWitness ==
    /\ IsTrainCall
    /\ Len(call.steps) >= 2

\* C5: early termination is not an error: a train with vocab_size >= 256 whose
\* working sequence ends with fewer than 2 tokens returns without raising.
EarlyTerminationSucceeds ==
    (call.op = "train" /\ call.vocab_size >= NumBytes /\ Len(call.ret) < 2)
        => call.raised = None

\* C6: referential integrity: while the tables are those a successful train
\* left, every id 0..255 maps to the one byte equal to it, and every id >= 256
\* of vocab is the value of exactly one merges entry, whose two members are
\* smaller ids of vocab and whose expansions, concatenated, are the id's.
ReferentialIntegrity ==
    trained # <<>> =>
        /\ \A id \in 0..(NumBytes - 1) :
              id \in DOMAIN vocab /\ vocab[id] = <<id>>
        /\ \A id \in DOMAIN vocab :
              /\ id >= 0
              /\ id >= NumBytes =>
                    /\ Cardinality({p \in DOMAIN merges : merges[p] = id}) = 1
                    /\ \A p \in DOMAIN merges :
                          merges[p] = id =>
                              /\ p[1] \in DOMAIN vocab /\ p[1] < id
                              /\ p[2] \in DOMAIN vocab /\ p[2] < id
                              /\ vocab[id] = vocab[p[1]] \o vocab[p[2]]

\* C6's case: a trained vocabulary with a learned id made of a learned id
ReferentialIntegrityWitness ==
    /\ trained # <<>>
    /\ \E p \in DOMAIN merges :
          /\ merges[p] \in DOMAIN vocab
          /\ (p[1] >= NumBytes \/ p[2] >= NumBytes)
          /\ Len(vocab[merges[p]]) >= 3

\* C7: priority-ordered encoding: every pass of an encode merges an adjacent
\* pair of the current sequence that is a key of merges and has the smallest
\* merges value among the adjacent pairs that are keys, into that value, by
\* _merge; the tokens returned hold no adjacent pair that is a key of merges.
PriorityOrderedEncoding ==
    IsEncodeCall =>
        /\ \A k \in 1..Len(call.steps) :
              LET s == call.steps[k] IN
              /\ s.pair \in PairsOf(s.ids) \cap DOMAIN merges
              /\ \A q \in PairsOf(s.ids) \cap DOMAIN merges :
                    merges[s.pair] <= merges[q]
              /\ s.idx = merges[s.pair]
              /\ After(call, k) = _merge(s.ids, s.pair, s.idx)
        /\ After(call, 0) = Utf8Encode(call.arg)
        /\ PairsOf(call.ret) \cap DOMAIN merges = {}

\* C7's case: a pass that had another key of merges in the sequence, one that
\* occurs earlier and more often than the pair it merged
PriorityOrderedEncodingWitness ==
    /\ IsEncodeCall
    /\ \E k \in 1..Len(call.steps) :
          LET s == call.steps[k] IN
          \E q \in PairsOf(s.ids) \cap DOMAIN merges :
              /\ q # s.pair
              /\ FirstOccurrence(s.ids, q) < FirstOccurrence(s.ids, s.pair)
              /\ Cardinality(Occurrences(s.ids, q))
                     > Cardinality(Occurrences(s.ids, s.pair))

\* the positions of ids where _merge's greedy left-to-right scan finds a
\* match: the pair is there and the position before did not start a match
RECURSIVE MatchStart(_, _, _)
MatchStart(ids, pair, i) ==
    /\ i >= 1
    /\ i < Len(ids)
    /\ PairAt(ids, i) = pair
    /\ ~MatchStart(ids, pair, i - 1)

\* the positions the scan emits something for: all but the second of a match
Emitting(ids, pair) == {i \in 1..Len(ids) : ~MatchStart(ids, pair, i - 1)}

\* C8: _merge is a greedy left-to-right non-overlapping rewrite: it emits, in
\* order, idx for every position where the scan finds a match and ids[i] for
\* every other position that is not the second of a match; [a,a,a] with (a,a)
\* gives [idx,a]; the arguments are as they were; and when idx does not occur
\* in ids the result holds no adjacent (a, b).
MergeIsGreedyRewrite ==
    margs.called =>
        LET ids  == margs.ids
            pair == margs.pair
            out  == margs.out
            E    == Emitting(ids, pair)
        IN  /\ Len(out) = Cardinality(E)
            /\ \A i \in E :
                  out[Cardinality({j \in E : j <= i})] =
                      IF MatchStart(ids, pair, i) THEN margs.idx ELSE ids[i]
            /\ (ids = <<97, 97, 97>> /\ pair = <<97, 97>>)
                  => out = <<margs.idx, 97>>
            /\ (\A i \in 1..Len(ids) : ids[i] # margs.idx)
                  => pair \notin PairsOf(out)

\* C8's case: [a,a,a] with the pair (a,a): the match at the second position
\* is skipped
MergeIsGreedyRewriteWitness ==
    /\ margs.called
    /\ margs.ids = <<97, 97, 97>>
    /\ margs.pair = <<97, 97>>
    /\ margs.idx = NumBytes
    /\ margs.out = <<NumBytes, 97>>

\* C9: deterministic tie-break: the pair every training iteration merges has
\* the maximum adjacent-pair count in the iteration's sequence, and among the
\* pairs with that count its first occurrence is the leftmost.
TrainingTieBreak ==
    call.op = "train" =>
        \A k \in 1..Len(call.steps) :
            LET s == call.steps[k]
                n == Cardinality(Occurrences(s.ids, s.pair))
            IN  /\ s.pair \in PairsOf(s.ids)
                /\ \A q \in PairsOf(s.ids) :
                      /\ Cardinality(Occurrences(s.ids, q)) <= n
                      /\ Cardinality(Occurrences(s.ids, q)) = n
                            => FirstOccurrence(s.ids, s.pair)
                                   <= FirstOccurrence(s.ids, q)

\* C9's case: an iteration with two pairs tied for the maximum count, both
\* occurring twice, beside a less frequent pair
TrainingTieBreakWitness ==
    /\ IsTrainCall
    /\ \E k \in 1..Len(call.steps) :
          LET s == call.steps[k] IN
          /\ Cardinality(Occurrences(s.ids, s.pair)) = 2
          /\ \E q \in PairsOf(s.ids) :
                /\ q # s.pair
                /\ Cardinality(Occurrences(s.ids, q)) = 2
          /\ \E q \in PairsOf(s.ids) :
                Cardinality(Occurrences(s.ids, q)) = 1

\* an encode call on tables a successful train left with at least one merge
IsEncodeOnTrained ==
    call.op = "encode" /\ trained # <<>> /\ DOMAIN merges # {}

\* what C10 says of every pass and of the result, the bound on the number of
\* passes apart
EncodeKeepsBytes ==
    /\ call.raised = None
    /\ \A k \in 0..Len(call.steps) :
          /\ \A j \in 1..Len(After(call, k)) :
                After(call, k)[j] \in DOMAIN vocab
          /\ JoinBytes(vocab, After(call, k)) = Utf8Encode(call.arg)
    /\ decode(vocab, call.ret) = [raised |-> None, ret |-> call.arg]

\* C10 as stated: on tables a successful train left with at least one merge,
\* encode(X) of any text X makes at most len(bytes(X)) - 1 passes, returns
\* ids of vocab, keeps the concatenated expansions equal to the bytes of X
\* after every pass, and decode gives X back.
EncodePreservesBytesAsStated ==
    IsEncodeOnTrained =>
        /\ Len(call.steps) <= Len(Utf8Encode(call.arg)) - 1
        /\ EncodeKeepsBytes

\* C10 as amended: the same, with at most len(bytes(X)) - 1 passes for a
\* non-empty X and none for the empty text.
EncodePreservesBytes ==
    IsEncodeOnTrained =>
        /\ Len(call.steps) <=
               IF call.arg = <<>> THEN 0 ELSE Len(Utf8Encode(call.arg)) - 1
        /\ EncodeKeepsBytes

\* C10's case: a text other than the trained one, with a two-byte character,
\* encoded in at least two passes
EncodePreservesBytesWitness ==
    /\ IsEncodeOnTrained
    /\ call.raised = None
    /\ call.arg # trained[1].text
    /\ \E k \in 1..Len(call.arg) : call.arg[k] = 233
    /\ Len(call.steps) >= 2

====
